---- MODULE Spec2Model ----
(***************************************************************************)
(* Model of the movie ETL pipeline of etl_script.py: the SQL extraction,    *)
(* ETL.__transform_row, ESLoader.__get_es_build_query, ESLoader.load_to_es *)
(* and ETL.load, together with the bulk endpoint they talk to.             *)
(*                                                                         *)
(* Python strings that the code splits, strips or parses are sequences of  *)
(* one-character strings; strings that are only compared or passed on are  *)
(* TLA+ strings.  None is the record [py |-> "None"].                      *)
(***************************************************************************)
EXTENDS Integers, Sequences, FiniteSets, TLC

----------------------------------------------------------------------------
(* Bounds of the model *)

MaxMovies == 2

MaxRuns == 2

MaxRefs == 3

MaxCast == 2

----------------------------------------------------------------------------
(* Python values *)

None == [py |-> "None"]

Str(s) == [py |-> "str", v |-> s]

List(l) == [py |-> "list", v |-> l]

Float(n, d) == [py |-> "float", num |-> n, den |-> d]

NA == <<"N", "/", "A">>

Digits == {"0", "1", "2", "3", "4", "5", "6", "7", "8", "9"}

DigitVal(c) ==
    CASE c = "0" -> 0 [] c = "1" -> 1 [] c = "2" -> 2 [] c = "3" -> 3
      [] c = "4" -> 4 [] c = "5" -> 5 [] c = "6" -> 6 [] c = "7" -> 7
      [] c = "8" -> 8 [] c = "9" -> 9

Range(s) == {s[i] : i \in 1..Len(s)}

----------------------------------------------------------------------------
(* str.split(sep): the pieces between the separators; '' splits to [''] *)

RECURSIVE SplitFrom(_, _, _, _)
SplitFrom(s, sep, i, cur) ==
    IF i > Len(s) THEN <<cur>>
    ELSE IF s[i] = sep THEN <<cur>> \o SplitFrom(s, sep, i + 1, <<>>)
    ELSE SplitFrom(s, sep, i + 1, Append(cur, s[i]))

Split(s, sep) == SplitFrom(s, sep, 1, <<>>)

(* str.replace(ch, ''): every occurrence of ch removed *)
Remove(s, ch) == SelectSeq(s, LAMBDA c : c # ch)

(* str.strip(): leading and trailing whitespace removed *)
RECURSIVE LStrip(_)
LStrip(s) == IF s # <<>> /\ Head(s) = " " THEN LStrip(Tail(s)) ELSE s

RECURSIVE RStrip(_)
RStrip(s) ==
    IF s # <<>> /\ s[Len(s)] = " " THEN RStrip(SubSeq(s, 1, Len(s) - 1)) ELSE s

Strip(s) == RStrip(LStrip(s))

(* sep.join(parts) *)
RECURSIVE Join(_, _)
Join(parts, sep) ==
    IF parts = <<>> THEN <<>>
    ELSE IF Len(parts) = 1 THEN parts[1]
    ELSE parts[1] \o <<sep>> \o Join(Tail(parts), sep)

(* zip(a, b): pairs by position, as long as the shorter list *)
Min(a, b) == IF a <= b THEN a ELSE b

Zip(a, b) == [i \in 1..Min(Len(a), Len(b)) |-> <<a[i], b[i]>>]

----------------------------------------------------------------------------
(* float(s): surrounding whitespace ignored, an optional sign, digits with *)
(* an optional point.  The value is a reduced decimal fraction num/den.    *)
(* Anything else over the model's alphabet is a ValueError.                *)

RECURSIVE DigitsVal(_)
DigitsVal(s) ==
    IF s = <<>> THEN 0 ELSE 10 * DigitsVal(SubSeq(s, 1, Len(s) - 1)) + DigitVal(s[Len(s)])

RECURSIVE Pow10(_)
Pow10(k) == IF k = 0 THEN 1 ELSE 10 * Pow10(k - 1)

RECURSIVE Reduce(_, _)
Reduce(n, d) ==
    IF d > 1 /\ n % 10 = 0 THEN Reduce(n \div 10, d \div 10) ELSE <<n, d>>

Unsigned(s) == IF s # <<>> /\ Head(s) \in {"-", "+"} THEN Tail(s) ELSE s

IsNumeric(s) ==
    LET u == Unsigned(Strip(s))
        parts == Split(u, ".")
    IN  /\ Len(parts) <= 2
        /\ \A i \in 1..Len(parts) : Range(parts[i]) \subseteq Digits
        /\ \E i \in 1..Len(parts) : parts[i] # <<>>

ParseFloat(s) ==
    LET t == Strip(s)
        u == Unsigned(t)
        parts == Split(u, ".")
        ip == parts[1]
        fp == IF Len(parts) = 2 THEN parts[2] ELSE <<>>
        mag == DigitsVal(ip) * Pow10(Len(fp)) + DigitsVal(fp)
        r == Reduce(mag, Pow10(Len(fp)))
        neg == t # <<>> /\ Head(t) = "-"
    IN  Float(IF neg THEN 0 - r[1] ELSE r[1], r[2])

----------------------------------------------------------------------------
(* The relational source.  A database is a record                          *)
(*   movies : sequence of movies rows                                      *)
(*   cast   : per movie, the actor ids movie_actors joins to it            *)
(*   actors : actor id -> name (Str or None for NULL)                      *)
(*   writers: writer id -> name                                            *)
(* The text of movies.writers is '' or a JSON array of {id} references.    *)

EmptyText == [text |-> "empty"]

JsonText(v) == [text |-> "json", v |-> v]

(* group_concat(X): the non-NULL values joined by ',', NULL when none *)
GroupConcat(vals) ==
    LET present == SelectSeq(vals, LAMBDA v : v # None)
    IN  IF present = <<>> THEN None
        ELSE Str(Join([i \in 1..Len(present) |-> present[i].v], ","))

(* The row the query yields for the k-th movie *)
SQL(db, k) ==
    LET m == db.movies[k]
        joined == db.cast[k]
        ids == [i \in 1..Len(joined) |-> Str(<<joined[i]>>)]
        names == [i \in 1..Len(joined) |-> db.actors[joined[i]]]
    IN  [id |-> m.id, genre |-> m.genre, director |-> m.director,
         title |-> m.title, plot |-> m.plot, imdb_rating |-> m.imdb_rating,
         actors_ids |-> GroupConcat(ids),
         actors_names |-> GroupConcat(names),
         writers |-> IF m.writers = EmptyText
                     THEN JsonText(<<[id |-> m.writer]>>)
                     ELSE m.writers]

(* SELECT DISTINCT id, name FROM writers, keyed by id *)
load_writers_names(db) ==
    [w \in DOMAIN db.writers |-> [id |-> w, name |-> db.writers[w]]]

----------------------------------------------------------------------------
(* ETL.__transform_row.  The result is [exc, val]: exc = "none" and the    *)
(* document, or the exception the statement raises and None.               *)

Raise(e) == [exc |-> e, val |-> None]

Return(v) == [exc |-> "none", val |-> v]

json_loads(t) == t.v

(* The loop over the references: acc = [exc, movie_writers, writers_set] *)
RECURSIVE WritersLoop(_, _, _, _)
WritersLoop(refs, i, writers, acc) ==
    IF i > Len(refs) THEN acc
    ELSE LET writer_id == refs[i].id
         IN  IF writer_id \notin DOMAIN writers
             THEN [acc EXCEPT !.exc = "KeyError"]
             ELSE IF writers[writer_id].name # "N/A" /\ writer_id \notin acc.writers_set
             THEN WritersLoop(refs, i + 1, writers,
                      [acc EXCEPT !.movie_writers = Append(@, writers[writer_id]),
                                  !.writers_set = @ \cup {writer_id}])
             ELSE WritersLoop(refs, i + 1, writers, acc)

(* The loop without the seen-set: every resolved, named reference is kept *)
MovieWritersKeepDuplicates(row, writers) ==
    LET refs == json_loads(row.writers)
        found == [i \in 1..Len(refs) |->
                     IF refs[i].id \in DOMAIN writers THEN writers[refs[i].id]
                     ELSE [id |-> refs[i].id, name |-> "N/A"]]
    IN  IF \E i \in 1..Len(refs) : refs[i].id \notin DOMAIN writers
        THEN [exc |-> "KeyError", movie_writers |-> <<>>, writers_set |-> {}]
        ELSE [exc |-> "none",
              movie_writers |-> SelectSeq(found, LAMBDA w : w.name # "N/A"),
              writers_set |-> {}]

MovieWriters(row, writers) ==
    WritersLoop(json_loads(row.writers), 1, writers,
                [exc |-> "none", movie_writers |-> <<>>, writers_set |-> {}])

Actors(row) ==
    IF row.actors_ids # None /\ row.actors_names # None
    THEN LET pairs == Zip(Split(row.actors_ids.v, ","), Split(row.actors_names.v, ","))
             kept == SelectSeq(pairs, LAMBDA p : p[2] # NA)
         IN  [i \in 1..Len(kept) |-> [id |-> kept[i][1], name |-> kept[i][2]]]
    ELSE <<>>

ActorsNames(row) ==
    IF row.actors_ids # None /\ row.actors_names # None
    THEN SelectSeq(Split(row.actors_names.v, ","), LAMBDA x : x # NA)
    ELSE <<>>

Genre(row) == Split(Remove(row.genre, " "), ",")

(* The rating converted only when it is numeric, passed on otherwise *)
ImdbRatingSentinelKept(row) ==
    IF IsNumeric(row.imdb_rating) THEN ParseFloat(row.imdb_rating)
    ELSE Str(row.imdb_rating)

ImdbRating(row) ==
    IF row.imdb_rating # NA THEN ParseFloat(row.imdb_rating) ELSE None

RatingRaises(row) == row.imdb_rating # NA /\ ~IsNumeric(row.imdb_rating)

Director(row) ==
    IF row.director # NA
    THEN LET parts == Split(row.director, ",")
         IN  List([i \in 1..Len(parts) |-> Strip(parts[i])])
    ELSE None

Description(row) == IF row.plot # "N/A" THEN Str(row.plot) ELSE None

transform_row(row, writers) ==
    LET mw == MovieWriters(row, writers)
    IN  IF mw.exc # "none" THEN Raise(mw.exc)
        ELSE IF RatingRaises(row) THEN Raise("ValueError")
        ELSE Return([id |-> row.id,
                     genre |-> Genre(row),
                     writers |-> mw.movie_writers,
                     actors |-> Actors(row),
                     actors_names |-> ActorsNames(row),
                     writers_names |-> [i \in 1..Len(mw.movie_writers) |->
                                           mw.movie_writers[i].name],
                     imdb_rating |-> ImdbRating(row),
                     title |-> row.title,
                     director |-> Director(row),
                     description |-> Description(row)])

----------------------------------------------------------------------------
(* ESLoader.__get_es_build_query and the payload of load_to_es.  A line of *)
(* the payload is the token json.dumps returns (it holds no newline); the  *)
(* payload is the sequence of line tokens and newline characters.          *)

NL == [char |-> "\n"]

json_dumps(x) == [json |-> x]

(* The action line without the document's id *)
ActionLineWithoutId(row, idx_name) ==
    json_dumps([index |-> [_index |-> idx_name]])

ActionLine(row, idx_name) ==
    json_dumps([index |-> [_index |-> idx_name, _id |-> row.id]])

RECURSIVE get_es_build_query(_, _)
get_es_build_query(rows, idx_name) ==
    IF rows = <<>> THEN <<>>
    ELSE <<ActionLine(Head(rows), idx_name), json_dumps(Head(rows))>>
         \o get_es_build_query(Tail(rows), idx_name)

(* The payload without the final newline *)
StrQueryNoFinalNewline(prepared_query) ==
    Join([i \in 1..Len(prepared_query) |-> <<prepared_query[i]>>], NL)

(* '\n'.join(prepared_query) + '\n' *)
StrQuery(prepared_query) ==
    Join([i \in 1..Len(prepared_query) |-> <<prepared_query[i]>>], NL) \o <<NL>>

----------------------------------------------------------------------------
(* The bulk endpoint of the search index (the external collaborator).  It  *)
(* reads the payload line by line, an action line followed by a source     *)
(* line, and answers one item per action in submission order.  An index    *)
(* action with an _id replaces the entry of that _id; one without gets a   *)
(* generated _id.  rejected is the set of positions the index refuses.     *)

PayloadLines(payload) ==
    LET pieces == Split(payload, NL)
    IN  SelectSeq(pieces, LAMBDA l : l # <<>>)

AutoId(entries) ==
    LET n == Cardinality(entries)
    IN  CASE n = 0 -> "auto1" [] n = 1 -> "auto2" [] n = 2 -> "auto3"
          [] n = 3 -> "auto4" [] n = 4 -> "auto5" [] n = 5 -> "auto6"
          [] n = 6 -> "auto7" [] n = 7 -> "auto8" [] OTHER -> "auto9"

IndexOne(entries, action, source) ==
    LET meta == action.json.index
        hasId == "_id" \in DOMAIN meta
        newId == IF hasId THEN meta._id ELSE AutoId(entries)
        kept == {e \in entries : ~(e._index = meta._index /\ e._id = newId)}
    IN  kept \cup {[_index |-> meta._index, _id |-> newId, _source |-> source.json]}

ItemId(action, entries) ==
    IF "_id" \in DOMAIN action.json.index THEN action.json.index._id
    ELSE AutoId(entries)

RECURSIVE BulkFrom(_, _, _, _, _)
BulkFrom(lines, k, rejected, entries, items) ==
    IF 2 * k > Len(lines) THEN [entries |-> entries, items |-> items]
    ELSE LET action == lines[2 * k - 1][1]
             source == lines[2 * k][1]
         IN  IF k \in rejected
             THEN BulkFrom(lines, k + 1, rejected, entries,
                      Append(items, [_id |-> ItemId(action, entries), status |-> 400,
                                     error |-> "mapper_parsing_exception"]))
             ELSE BulkFrom(lines, k + 1, rejected, IndexOne(entries, action, source),
                      Append(items, [_id |-> ItemId(action, entries),
                                     status |-> IF \E e \in entries :
                                                     e._id = ItemId(action, entries)
                                                THEN 200 ELSE 201,
                                     error |-> "none"]))

(* The endpoint's answer to a payload that reached it *)
Bulk(payload, rejected, entries) ==
    LET lines == PayloadLines(payload)
    IN  IF lines = <<>>
        THEN [entries |-> entries, status |-> 400,
              body |-> JsonText([error |-> "action_request_validation_exception"])]
        ELSE LET r == BulkFrom(lines, 1, rejected, entries, <<>>)
             IN  [entries |-> r.entries, status |-> 200,
                  body |-> JsonText([errors |-> rejected # {}, items |-> r.items])]

----------------------------------------------------------------------------
(* State *)

VARIABLES
    db,        \* the relational source
    index,     \* the entries of the search index
    pc,        \* position of the run: idle, directory, rows, done, failed
    runs,      \* runs started so far
    writers,   \* ETL.load: the writer directory, None before it is read
    cursor,    \* ETL.load: rows fetched from the query's cursor
    row,       \* ETL.load: the row last fetched
    result,    \* ETL.load: what __transform_row did with it
    records,   \* ETL.load: the transformed rows
    requests,  \* the payloads posted to _bulk in this run
    response,  \* load_to_es: the response of the post, None without one
    exc,       \* the exception that ended the run, "none" otherwise
    ret        \* what load_to_es returned, "unset" before it returns

vars == <<db, index, pc, runs, writers, cursor, row, result, records,
          requests, response, exc, ret>>

Dict(d) == [py |-> "dict", v |-> d]

idx_name == "movies"

----------------------------------------------------------------------------
(* The sources the model draws from *)

WriterIds == {"w1", "w2", "w9"}

WriterTables ==
    { [w \in {"w1", "w2"} |-> IF w = "w1" THEN "Jane Doe" ELSE "N/A"],
      [w \in {"w1", "w2"} |-> IF w = "w1" THEN "Jane Doe" ELSE "Bob"] }

ActorTable ==
    [a \in {"1", "2", "3", "4"} |->
        CASE a = "1" -> Str(<<"A", "l">>)
          [] a = "2" -> Str(NA)
          [] a = "3" -> Str(<<"X", ",", "Y">>)
          [] a = "4" -> None]

(* rating text and, for the numeric ones, the number it denotes *)
RatingTable ==
    { <<NA, None>>,
      <<<<"8", ".", "5">>, Float(85, 10)>>,
      <<<<"8", ".", "5", "0">>, Float(85, 10)>>,
      <<<<"1", "0">>, Float(10, 1)>>,
      <<<<" ", "7", ".">>, Float(7, 1)>>,
      <<<<"-", ".", "5">>, Float(-5, 10)>>,
      <<<<"x">>, None>>,
      <<<<>>, None>>,
      <<<<"N", "/", "A", " ">>, None>> }

Ratings == {p[1] : p \in RatingTable}

NumericRatings == {p[1] : p \in {q \in RatingTable : q[2] # None}}

Texts ==
    { [genre |-> <<"A", ",", " ", "D">>, director |-> NA, plot |-> "N/A"],
      [genre |-> <<"A">>, director |-> <<"J", ",", " ", "K", " ">>, plot |-> "plot"] }

SeqsUpTo(S, n) == UNION {[1..k -> S] : k \in 0..n}

Injective(s) == \A i, j \in 1..Len(s) : s[i] = s[j] => i = j

Casts == {c \in SeqsUpTo(DOMAIN ActorTable, MaxCast) : Injective(c)}

Refs(r) == JsonText([i \in 1..Len(r) |-> [id |-> r[i]]])

(* movies.writers with movies.writer: '' and a single writer, or the array *)
WriterFields ==
    {[writers |-> EmptyText, writer |-> w] : w \in WriterIds} \cup
    {[writers |-> Refs(r), writer |-> ""] : r \in SeqsUpTo(WriterIds, MaxRefs)}

MovieId(k) ==
    CASE k = 1 -> "tt1" [] k = 2 -> "tt2" [] k = 3 -> "tt3" [] OTHER -> "tt4"

Movie(k, rating, wf, text) ==
    [id |-> MovieId(k), genre |-> text.genre, director |-> text.director,
     writer |-> wf.writer, title |-> "T", plot |-> text.plot,
     imdb_rating |-> rating, writers |-> wf.writers]

(* every single-movie database over the pools above *)
RowDatabases ==
    { [movies |-> <<Movie(1, r, wf, t)>>, cast |-> <<c>>,
       actors |-> ActorTable, writers |-> tab] :
        r \in Ratings, wf \in WriterFields, t \in Texts,
        c \in Casts, tab \in WriterTables }

(* the kinds of movie the runs of the pipeline are checked on *)
Kinds ==
    { [rating |-> <<"8", ".", "5">>, refs |-> <<"w1", "w2", "w1">>, cast |-> <<"1", "2">>],
      [rating |-> NA, refs |-> <<"w2">>, cast |-> <<>>],
      [rating |-> <<"1", "0">>, refs |-> <<"w9">>, cast |-> <<"1">>],
      [rating |-> <<"x">>, refs |-> <<"w1">>, cast |-> <<"2">>],
      [rating |-> <<"8", ".", "5">>, refs |-> <<"w1">>, cast |-> <<"3">>] }

KindMovie(k, kind) ==
    Movie(k, kind.rating, [writers |-> Refs(kind.refs), writer |-> ""],
          CHOOSE t \in Texts : t.director = NA)

RunDatabases ==
    { [movies |-> [k \in 1..Len(ks) |-> KindMovie(k, ks[k])],
       cast |-> [k \in 1..Len(ks) |-> ks[k].cast],
       actors |-> ActorTable,
       writers |-> CHOOSE tab \in WriterTables : tab["w2"] = "N/A"] :
        ks \in SeqsUpTo(Kinds, MaxMovies) }

----------------------------------------------------------------------------
(* Initial states: nothing indexed, no run started *)

Idle ==
    /\ index = {}
    /\ pc = "idle"
    /\ runs = 0
    /\ writers = None
    /\ cursor = 0
    /\ row = None
    /\ result = None
    /\ records = <<>>
    /\ requests = <<>>
    /\ response = None
    /\ exc = "none"
    /\ ret = "unset"

Init == db \in RunDatabases /\ Idle

InitRow == db \in RowDatabases /\ Idle

----------------------------------------------------------------------------
(* The script is started: etl.load(idx_name="movies") is entered *)

StartRun ==
    /\ pc \in {"idle", "done", "failed"}
    /\ runs < MaxRuns
    /\ pc' = "directory"
    /\ runs' = runs + 1
    /\ writers' = None
    /\ cursor' = 0
    /\ row' = None
    /\ result' = None
    /\ records' = <<>>
    /\ requests' = <<>>
    /\ response' = None
    /\ exc' = "none"
    /\ ret' = "unset"
    /\ UNCHANGED <<db, index>>

(* writers = self.load_writers_names(): read, or the source cannot be read *)
LoadWriters ==
    /\ pc = "directory"
    /\ \/ /\ writers' = Dict(load_writers_names(db))
          /\ pc' = "rows"
          /\ exc' = exc
       \/ /\ writers' = writers
          /\ pc' = "failed"
          /\ exc' = "OperationalError"
    /\ UNCHANGED <<db, index, runs, cursor, row, result, records, requests,
                   response, ret>>

(* The cursor has a next row *)
HasNextRow == cursor < Len(db.movies)

(* One turn of the loop of ETL.load: fetch, transform, append *)
TransformRow ==
    /\ pc = "rows"
    /\ HasNextRow
    /\ LET fetched == SQL(db, cursor + 1)
           r == transform_row(fetched, writers.v)
       IN  /\ cursor' = cursor + 1
           /\ row' = fetched
           /\ result' = r
           /\ IF r.exc = "none"
              THEN /\ records' = Append(records, r.val)
                   /\ UNCHANGED <<pc, exc>>
              ELSE /\ pc' = "failed"
                   /\ exc' = r.exc
                   /\ UNCHANGED records
    /\ UNCHANGED <<db, index, runs, writers, requests, response, ret>>

(* load_to_es after the post answered: the response is printed, its body   *)
(* parsed and printed, and the method returns None                         *)
AfterResponse(resp) ==
    IF resp.body.text = "json" THEN Return(None) ELSE Raise("JSONDecodeError")

Rejections == SUBSET (1..Len(records))

(* The call of load_to_es inside the loop *)
BulkDueInLoop == cursor >= 1

(* The call of load_to_es stands after the loop *)
BulkDue == ~HasNextRow

(* self.es_loader.load_to_es(records, idx_name): one post of the payload   *)
LoadToEs ==
    /\ pc = "rows"
    /\ BulkDue
    /\ LET payload == StrQuery(get_es_build_query(records, idx_name))
       IN  /\ requests' = Append(requests, payload)
           /\ \/ \* the request does not reach the index
                 /\ pc' = "failed"
                 /\ exc' = "ConnectionError"
                 /\ UNCHANGED <<index, response, ret>>
              \/ \* the index works on the request, the answer is not read in time
                 /\ \E rejected \in Rejections :
                        index' = Bulk(payload, rejected, index).entries
                 /\ pc' = "failed"
                 /\ exc' = "ReadTimeout"
                 /\ UNCHANGED <<response, ret>>
              \/ \* the index answers
                 \E rejected \in Rejections :
                    LET b == Bulk(payload, rejected, index)
                        resp == [status |-> b.status, body |-> b.body]
                        o == AfterResponse(resp)
                    IN  /\ index' = b.entries
                        /\ response' = resp
                        /\ exc' = o.exc
                        /\ pc' = IF o.exc = "none" THEN "done" ELSE "failed"
                        /\ ret' = IF o.exc = "none" THEN o.val ELSE ret
              \/ \* the request is refused before the index works on it
                 \E resp \in { [status |-> 401, body |-> JsonText([error |-> "security_exception"])],
                               [status |-> 502, body |-> [text |-> "html"]] } :
                    LET o == AfterResponse(resp)
                    IN  /\ response' = resp
                        /\ exc' = o.exc
                        /\ pc' = IF o.exc = "none" THEN "done" ELSE "failed"
                        /\ ret' = IF o.exc = "none" THEN o.val ELSE ret
                        /\ UNCHANGED index
    /\ UNCHANGED <<db, runs, writers, cursor, row, result, records>>

(* Between two runs a title of the source changes *)
EditSource ==
    /\ pc \in {"done", "failed"}
    /\ \E k \in 1..Len(db.movies) :
          /\ db.movies[k].title = "T"
          /\ db' = [db EXCEPT !.movies[k].title = "T2"]
    /\ UNCHANGED <<index, pc, runs, writers, cursor, row, result, records,
                   requests, response, exc, ret>>

Next == StartRun \/ LoadWriters \/ TransformRow \/ LoadToEs \/ EditSource

Spec == Init /\ [][Next]_vars

(* The transformer alone, on every row of RowDatabases *)
NextRow == StartRun \/ LoadWriters \/ TransformRow

SpecRow == InitRow /\ [][NextRow]_vars

----------------------------------------------------------------------------
(* Notions the properties are stated with *)

RunEnded == pc \in {"done", "failed"}

Transformed == row # None /\ result # None

Produced == Transformed /\ result.exc = "none"

Directory == writers.v

Items ==
    IF response = None THEN <<>>
    ELSE IF response.status = 200 THEN response.body.v.items ELSE <<>>

Answered == response # None /\ response.status = 200

FailedItems == {i \in 1..Len(Items) : Items[i].error # "none"}

AllAccepted == Answered /\ FailedItems = {}

Entry(doc) == [_index |-> idx_name, _id |-> doc.id, _source |-> doc]

EntriesOf(id) == {e \in index : e._source.id = id}

(* the ids of the rows of db that __transform_row turns into a document *)
GoodIds ==
    LET all == [k \in 1..Len(db.movies) |-> SQL(db, k)]
        good == SelectSeq(all, LAMBDA r : transform_row(r, load_writers_names(db)).exc = "none")
    IN  [i \in 1..Len(good) |-> good[i].id]

RecordIds == [i \in 1..Len(records) |-> records[i].id]

ActorIdList == Split(row.actors_ids.v, ",")

ActorNameList == Split(row.actors_names.v, ",")

ListsMismatch ==
    /\ Transformed
    /\ row.actors_ids # None
    /\ row.actors_names # None
    /\ Len(ActorIdList) # Len(ActorNameList)

RefIds == LET refs == json_loads(row.writers) IN [i \in 1..Len(refs) |-> refs[i].id]

AllResolve == \A i \in 1..Len(RefIds) : RefIds[i] \in DOMAIN Directory

FirstIndex(id) == CHOOSE i \in 1..Len(RefIds) : RefIds[i] = id /\ \A j \in 1..(i - 1) : RefIds[j] # id

NewlineCount(payload) == Cardinality({i \in 1..Len(payload) : payload[i] = NL})

----------------------------------------------------------------------------
(* C1: a row whose transformation fails does not abort the run: once the  *)
(* directory is read, a run that has ended did not end with a row's        *)
(* exception, issued its bulk write, and submitted every row that          *)
(* transforms successfully.                                                *)
C1_RowErrorsDoNotAbort ==
    (RunEnded /\ writers # None) =>
        /\ exc \notin {"KeyError", "ValueError"}
        /\ Len(requests) = 1
        /\ RecordIds = GoodIds

(* C2: when the bulk request is answered and exactly one of the N items   *)
(* reports an error, load_to_es does not fail and returns a LoadReport     *)
(* with attempted = N, succeeded = N-1 and the one failure carrying that   *)
(* document's id, and the other N-1 documents are indexed.                 *)
C2_PartialFailureReport ==
    (RunEnded /\ Answered /\ Cardinality(FailedItems) = 1) =>
        LET n == Len(records)
            bad == CHOOSE i \in FailedItems : TRUE
        IN  /\ pc = "done"
            /\ \A i \in (1..n) \ {bad} : Entry(records[i]) \in index
            /\ ret \in { [attempted |-> n, succeeded |-> n - 1,
                          failures |-> <<[id |-> records[bad].id, reason |-> Items[bad].error]>>] }

(* C3: the bulk load fails as a whole exactly when the request could not  *)
(* be completed: a network error, a timeout, or a response that is not 2xx *)
C3_TransportFailureIff ==
    (RunEnded /\ requests # <<>>) =>
        ( pc = "failed" <=>
            \/ exc \in {"ConnectionError", "ReadTimeout"}
            \/ response # None /\ response.status \notin 200..299 )

(* C4: loading is an upsert by id: the index never holds two entries for  *)
(* one document id, and after a load whose items were all accepted the     *)
(* entry of each loaded document is the single one of its id and holds the *)
(* content of that load.                                                   *)
C4_UpsertById ==
    /\ \A e1, e2 \in index : e1._source.id = e2._source.id => e1 = e2
    /\ (pc = "done" /\ AllAccepted) =>
          \A i \in 1..Len(records) : EntriesOf(records[i].id) = {Entry(records[i])}

(* a second load overwrote, with new content, what the first had indexed *)
C4_Witness ==
    /\ runs = 2
    /\ pc = "done"
    /\ AllAccepted
    /\ Len(records) = 2
    /\ records[1].title = "T2"
    /\ \A i \in 1..Len(Items) : Items[i].status = 200

(* C5: in every document the transformer produces, actors and             *)
(* actors_names have the same length and actors[i].name = actors_names[i]. *)
C5_ActorsAligned ==
    Produced =>
        /\ Len(result.val.actors) = Len(result.val.actors_names)
        /\ \A i \in 1..Len(result.val.actors) :
              i <= Len(result.val.actors_names)
              /\ result.val.actors[i].name = result.val.actors_names[i]

(* C6: a row whose actors_ids and actors_names split into lists of        *)
(* different lengths fails with MalformedActorList (unless an earlier      *)
(* field already failed the row) and produces no document.                 *)
C6_MismatchRaises ==
    ListsMismatch =>
        /\ result.exc \in {"MalformedActorList", "KeyError", "ValueError"}
        /\ result.val = None

(* C7: when every reference resolves, writers holds directory entries     *)
(* only, none named N/A, no id twice, exactly the ids referenced with a    *)
(* name other than N/A, in the order of their first reference; and         *)
(* writers_names is the list of their names.                               *)
C7_WritersResolved ==
    (Produced /\ AllResolve) =>
        LET w == result.val.writers
            n == result.val.writers_names
        IN  /\ \A i \in 1..Len(w) :
                  w[i].id \in DOMAIN Directory /\ w[i] = Directory[w[i].id] /\ w[i].name # "N/A"
            /\ \A i, j \in 1..Len(w) : w[i].id = w[j].id => i = j
            /\ {w[i].id : i \in 1..Len(w)} =
                  {RefIds[i] : i \in {k \in 1..Len(RefIds) : Directory[RefIds[k]].name # "N/A"}}
            /\ \A i, j \in 1..Len(w) : i < j => FirstIndex(w[i].id) < FirstIndex(w[j].id)
            /\ Len(n) = Len(w)
            /\ \A i \in 1..Len(w) : n[i] = w[i].name

(* two writers kept in reference order, the repeated reference dropped *)
C7_Witness ==
    /\ Produced
    /\ AllResolve
    /\ RefIds = <<"w2", "w1", "w2">>
    /\ result.val.writers_names = <<"Bob", "Jane Doe">>

(* C8: a rating equal to the sentinel gives imdb_rating null, a numeric   *)
(* rating transforms and gives the number it denotes, and imdb_rating is   *)
(* never the sentinel string.                                              *)
C8_Rating ==
    /\ Produced =>
          /\ row.imdb_rating = NA => result.val.imdb_rating = None
          /\ \A p \in RatingTable :
                (p[1] \in NumericRatings /\ row.imdb_rating = p[1]) =>
                    result.val.imdb_rating = p[2]
          /\ result.val.imdb_rating # Str(NA)
          /\ result.val.imdb_rating.py \in {"float", "None"}
    /\ (Transformed /\ row.imdb_rating \in NumericRatings \cup {NA}) =>
          result.exc # "ValueError"

(* '8.50' became the number 8.5 *)
C8_Witness ==
    /\ Produced
    /\ row.imdb_rating = <<"8", ".", "5", "0">>
    /\ result.val.imdb_rating = Float(85, 10)

(* C9: in a run the directory is read before the first row is             *)
(* transformed and is not modified afterwards; the bulk write is issued at *)
(* most once, and only after every source row has been transformed; a run  *)
(* whose directory read fails issues no bulk write.                        *)
C9_Ordering ==
    /\ [](/\ cursor > 0 => writers # None
          /\ Len(requests) <= 1
          /\ requests # <<>> =>
                cursor = Len(db.movies) /\ Len(records) = Len(db.movies)
          /\ exc = "OperationalError" => requests = <<>>)
    /\ [][/\ (writers # None /\ runs' = runs) => writers' = writers
          /\ cursor' > cursor => writers # None
          /\ Len(requests') > Len(requests) =>
                (cursor = Len(db.movies) /\ cursor' = cursor)]_vars

(* a run over two rows that issued its bulk write *)
C9_Witness ==
    /\ pc = "done"
    /\ cursor = 2
    /\ Len(requests) = 1
    /\ AllAccepted

(* C10 as stated: for every N the payload is 2N newline-terminated lines, *)
(* the action line of the k-th document and its body, in one request.      *)
C10_PayloadLinesAnyN ==
    /\ Len(requests) <= 1
    /\ \A r \in 1..Len(requests) :
          LET payload == requests[r]
              n == Len(records)
          IN  /\ NewlineCount(payload) = 2 * n
              /\ Len(payload) = 4 * n
              /\ \A k \in 1..n :
                    /\ payload[4 * k - 3] =
                          json_dumps([index |-> [_index |-> idx_name, _id |-> records[k].id]])
                    /\ payload[4 * k - 2] = NL
                    /\ payload[4 * k - 1] = json_dumps(records[k])
                    /\ payload[4 * k] = NL

(* C10 amended: for N >= 1 the payload is 2N newline-terminated lines,    *)
(* the action line of the k-th document and its body, in document order;   *)
(* for N = 0 it is a single newline; a run posts at most one request.      *)
C10_PayloadLines ==
    /\ Len(requests) <= 1
    /\ \A r \in 1..Len(requests) :
          LET payload == requests[r]
              n == Len(records)
          IN  IF n = 0 THEN payload = <<NL>>
              ELSE /\ NewlineCount(payload) = 2 * n
                   /\ Len(payload) = 4 * n
                   /\ \A k \in 1..n :
                         /\ payload[4 * k - 3] =
                               json_dumps([index |-> [_index |-> idx_name, _id |-> records[k].id]])
                         /\ payload[4 * k - 2] = NL
                         /\ payload[4 * k - 1] = json_dumps(records[k])
                         /\ payload[4 * k] = NL

(* a payload of two documents was posted *)
C10_Witness ==
    /\ Len(requests) = 1
    /\ Len(records) = 2
    /\ Len(requests[1]) = 8

====
